---- MODULE Spec2Model ----
(***************************************************************************)
(* Model of the amortization engine of src/mortgage-calculator.py:         *)
(* calculate_month, project_months, the dispatch of main, the prompts of   *)
(* interactive_mode and the last-entry read of print_projection.           *)
(*                                                                         *)
(* Money is an integer number of mills (1/1000 dollar): inputs are whole   *)
(* cents (multiples of 10 mills) and MONTHLY_PAYMENT * 0.1 = 129.439 is a  *)
(* whole number of mills.  The unrounded interest, principal and new       *)
(* balance are exact rationals w + f/RateDen mills, kept as records        *)
(* [w, f] with 0 <= f < RateDen.                                           *)
(*                                                                         *)
(* The source computes in binary doubles.  Away from an exact half cent    *)
(* the double and the exact value round to the same cent.  On an exact     *)
(* half cent the double lies on one side of it or the other, depending on  *)
(* the operands: calculate_month(600.0, 0) stores interest 3.25 for the    *)
(* exact 3.245, calculate_month(4200.0, 0) stores 22.71 for the exact      *)
(* 22.715.  HalfCentSides records, for the calls of this model whose exact *)
(* interest is a half cent, the side the source's doubles fall on; for any *)
(* other such call DoubleSides leaves both sides open.                     *)
(***************************************************************************)
EXTENDS Integers, Sequences, FiniteSets

\* ---------------------------------------------------------------- units
Mills(dollars, cents) == dollars * 1000 + cents * 10

\* ------------------------------------------------------ mortgage constants
\* ANNUAL_RATE = 0.0649, in ten-thousandths
ANNUAL_RATE == 649
\* MONTHLY_RATE = ANNUAL_RATE / 12: the divisor
MonthsPerYear == 12
\* MONTHLY_RATE = ANNUAL_RATE / RateDen as an exact fraction
RateDen == 10000 * MonthsPerYear
\* MONTHLY_PAYMENT = 1294.39, in mills
MONTHLY_PAYMENT == 1294390
\* MONTHLY_PAYMENT * 0.1 = 129.439, in mills
TenthPayment == MONTHLY_PAYMENT \div 10

\* ------------------------------------------------------------ bounds
\* balances k * BalanceStep for k in 0 .. BalanceSteps
BalanceSteps == 12
\* extras k * ExtraStep for k in -1 .. ExtraSteps
ExtraSteps == 4
\* num_months in MinMonths .. MaxMonths
MaxMonths == 4

BalanceStep == Mills(600, 0)
ExtraStep == Mills(1500, 0)
MinMonths == 0 - 1

\* 600.00 * odd is where the exact interest is a half cent
Balances ==
    { k * BalanceStep : k \in 0 .. BalanceSteps }
    \cup { Mills(95347, 3), Mills(1287, 43), Mills(100, 0), Mills(1000, 0),
           Mills(10000, 0), Mills(250000, 0), Mills(0 - 50, 0),
           Mills(239331, 58), Mills(239331, 59),
           Mills(239332, 51), Mills(239332, 52) }

Extras ==
    { k * ExtraStep : k \in (0 - 1) .. ExtraSteps }
    \cup { Mills(6042, 0), Mills(870, 57), Mills(0, 1), Mills(123, 45) }

Months == MinMonths .. MaxMonths

\* ------------------------------------------------------ exact arithmetic
Whole(x) == [w |-> x, f |-> 0]

\* x * MONTHLY_RATE for a whole number of mills x
MulRate(x) ==
    LET q == x \div RateDen
        r == x % RateDen
    IN  [w |-> ANNUAL_RATE * q + ((r * ANNUAL_RATE) \div RateDen),
         f |-> (r * ANNUAL_RATE) % RateDen]

\* a - v for a whole number of mills a and an exact value v
SubFrom(a, v) ==
    IF v.f = 0 THEN [w |-> a - v.w, f |-> 0]
               ELSE [w |-> a - v.w - 1, f |-> RateDen - v.f]

\* round(v, 2) of the double computed for the exact value v; on an exact
\* half cent, up = 1 says the double lies above it and up = 0 below it
round2(v, up) ==
    LET c == v.w \div 10
        d == v.w % 10
    IN  IF d < 5 THEN 10 * c
        ELSE IF d > 5 \/ v.f > 0 THEN 10 * (c + 1)
        ELSE IF up = 1 THEN 10 * (c + 1)
        ELSE 10 * c

\* the cents round(v, 2) can give for some double near v
RoundSet(v) == {round2(v, 0), round2(v, 1)}

\* <<balance, extra_payment, interest up, principal up, new_balance up>>:
\* what calculate_month(balance, extra_payment) stores when the exact
\* interest, principal and new balance are half cents
HalfCentSides ==
    {
      <<Mills(0, 0), Mills(3000, 0), 0, 1, 1>>,
      <<Mills(600, 0), Mills(0, 0), 1, 1, 0>>,
      <<Mills(600, 0), Mills(6000, 0), 0, 1, 0>>,
      <<Mills(1200, 0), Mills(3000, 0), 0, 0, 1>>,
      <<Mills(1800, 0), Mills(0, 0), 1, 1, 0>>,
      <<Mills(1800, 0), Mills(6000, 0), 1, 1, 1>>,
      <<Mills(2400, 0), Mills(3000, 0), 0, 0, 1>>,
      <<Mills(3000, 0), Mills(0, 0), 1, 1, 0>>,
      <<Mills(3000, 0), Mills(6000, 0), 0, 1, 1>>,
      <<Mills(3600, 0), Mills(3000, 0), 1, 1, 0>>,
      <<Mills(4200, 0), Mills(0, 0), 0, 1, 0>>,
      <<Mills(4200, 0), Mills(6000, 0), 0, 0, 1>>,
      <<Mills(4800, 0), Mills(3000, 0), 1, 1, 0>>,
      <<Mills(5400, 0), Mills(0, 0), 1, 1, 0>>,
      <<Mills(5400, 0), Mills(6000, 0), 0, 0, 1>>,
      <<Mills(6000, 0), Mills(3000, 0), 1, 1, 0>>,
      <<Mills(6600, 0), Mills(0, 0), 1, 1, 1>>,
      <<Mills(6600, 0), Mills(6000, 0), 1, 1, 0>>,
      <<Mills(7200, 0), Mills(3000, 0), 0, 1, 0>>,
      <<Mills(7800, 0), Mills(0, 0), 1, 1, 1>>,
      <<Mills(7800, 0), Mills(6000, 0), 1, 1, 0>>
    }

\* the sides the doubles of calculate_month(balance, extra_payment) can
\* fall on
DoubleSides(balance, extra_payment) ==
    LET known == { t \in HalfCentSides :
                       t[1] = balance /\ t[2] = extra_payment }
    IN  IF known # {}
           THEN { <<t[3], t[4], t[5]>> : t \in known }
           ELSE { <<i, p, n>> : i \in {0, 1}, p \in {0, 1}, n \in {0, 1} }

Min(a, b) == IF a <= b THEN a ELSE b
Max(a, b) == IF a >= b THEN a ELSE b

\* ------------------------------------------------------ calculate_month
\* interest charged on the balance before the extra payment
BalanceForInterest_ignoreExtra(balance, extra_payment) == balance

BalanceForInterest(balance, extra_payment) == balance - extra_payment

Interest(balance_for_interest) == MulRate(balance_for_interest)

\* the principal silently floored at 0 when the interest exceeds the payment
Principal_floored(interest) ==
    IF interest.w >= MONTHLY_PAYMENT THEN Whole(0)
    ELSE SubFrom(MONTHLY_PAYMENT, interest)

Principal(interest) == SubFrom(MONTHLY_PAYMENT, interest)

\* the principal added to the balance instead of taken off it
NewBalance_plus(balance, extra_payment, principal) ==
    [w |-> balance - extra_payment + principal.w, f |-> principal.f]

NewBalance(balance, extra_payment, principal) ==
    SubFrom(balance - extra_payment, principal)

calculate_month(balance, extra_payment) ==
    LET balance_for_interest == BalanceForInterest(balance, extra_payment)
        interest == Interest(balance_for_interest)
        principal == Principal(interest)
        new_balance == NewBalance(balance, extra_payment, principal)
    IN  { [starting_balance |-> balance,
           extra_payment |-> extra_payment,
           balance_for_interest |-> balance_for_interest,
           interest |-> round2(interest, s[1]),
           principal |-> round2(principal, s[2]),
           total_paid |-> t,
           new_balance |-> round2(new_balance, s[3])] :
             s \in DoubleSides(balance, extra_payment),
             t \in RoundSet(Whole(extra_payment + MONTHLY_PAYMENT)) }

\* ------------------------------------------------------- project_months
\* the clamp without the floor at 0
ClampExtra_noFloor(monthly_extra, balance) ==
    Min(monthly_extra, balance - TenthPayment)

\* the clamp against the whole balance
ClampExtra_noTenth(monthly_extra, balance) ==
    LET extra == Min(monthly_extra, balance)
    IN  IF extra < 0 THEN 0 ELSE extra

\* <<lo, hi, side>>: for lo <= balance - 129.439 < hi (in dollars) the double
\* balance - (balance - MONTHLY_PAYMENT * 0.1) is above (1), equal to (0) or
\* below (-1) the double MONTHLY_PAYMENT * 0.1: the inner subtraction is
\* rounded to the grid of its own binade
ClampBinades ==
    { <<0, 512, 0>>,
      <<1024, 2048, 1>>,
      <<2048, 4096, 0 - 1>>,
      <<4096, 16384, 1>>,
      <<16384, 131072, 0 - 1>>,
      <<131072, 262144, 1>> }

\* <<balance, side>> for 512 <= balance - 129.439 < 1024, where the inner
\* subtraction lies halfway between two doubles and the side depends on
\* the balance
HalfGridSides ==
    { <<Mills(773, 18), 0 - 1>>,
      <<Mills(816, 97), 1>>,
      <<Mills(846, 56), 1>>,
      <<Mills(1000, 0), 1>>,
      <<Mills(1051, 42), 1>>,
      <<Mills(1118, 59), 1>> }

\* the sides the double balance_for_interest of a month with
\* extra = balance - MONTHLY_PAYMENT * 0.1 can lie on, against the double
\* MONTHLY_PAYMENT * 0.1
ClampSides(balance) ==
    LET x == balance - TenthPayment
        binade == { t \in ClampBinades :
                        Mills(t[1], 0) <= x /\ x < Mills(t[2], 0) }
        known == { t \in HalfGridSides : t[1] = balance }
    IN  IF binade # {} THEN { t[3] : t \in binade }
        ELSE IF known # {} THEN { t[2] : t \in known }
        ELSE IF Mills(512, 0) <= x /\ x < Mills(1024, 0) THEN {0 - 1, 1}
        ELSE {0 - 1, 0, 1}

Sign(x) == IF x > 0 THEN 1 ELSE IF x < 0 THEN 0 - 1 ELSE 0

\* how the double balance - extra_payment compares with the double
\* MONTHLY_PAYMENT * 0.1
BfiVsTenth(balance, extra_payment) ==
    IF extra_payment > 0 /\ extra_payment = balance - TenthPayment
       THEN ClampSides(balance)
       ELSE {Sign(balance - extra_payment - TenthPayment)}

\* an extra above balance - MONTHLY_PAYMENT * 0.1 dropped instead of cut
ClampExtra_dropExcess(monthly_extra, balance) ==
    IF monthly_extra > balance - TenthPayment \/ monthly_extra < 0
       THEN 0
       ELSE monthly_extra

\* extra = min(monthly_extra, balance - MONTHLY_PAYMENT * 0.1); floored at 0
ClampExtra(monthly_extra, balance) ==
    LET extra == Min(monthly_extra, balance - TenthPayment)
    IN  IF extra < 0 THEN 0 ELSE extra

\* range(1, num_months + 2)
InRange_offByOne(month, num_months) == month >= 1 /\ month < num_months + 2

\* range(1, num_months + 1)
InRange(month, num_months) == month >= 1 /\ month < num_months + 1

\* balance = starting balance less the principal, the extra forgotten
NextBalance_noExtra(result) == result.starting_balance - result.principal

\* balance = result["new_balance"]
NextBalance(result) == result.new_balance

\* if balance < 0: break
PaidOff_strict(balance) == balance < 0

\* if balance <= 0: break
PaidOff(balance) == balance <= 0

WithMonth(result, month) ==
    [month |-> month,
     starting_balance |-> result.starting_balance,
     extra_payment |-> result.extra_payment,
     balance_for_interest |-> result.balance_for_interest,
     interest |-> result.interest,
     principal |-> result.principal,
     total_paid |-> result.total_paid,
     new_balance |-> result.new_balance]

\* the lists project_months can return once its loop stands at month with
\* the locals balance and results
RECURSIVE ProjectFrom(_, _, _, _, _)
ProjectFrom(balance, monthly_extra, num_months, month, results) ==
    IF ~InRange(month, num_months) THEN {results}
    ELSE UNION {
           LET appended == Append(results, WithMonth(r, month))
           IN  IF PaidOff(NextBalance(r)) THEN {appended}
               ELSE ProjectFrom(NextBalance(r), monthly_extra, num_months,
                                month + 1, appended) :
             r \in calculate_month(balance,
                                   ClampExtra(monthly_extra, balance)) }

\* project_months as a function of its arguments
project_months(starting_balance, monthly_extra, num_months) ==
    ProjectFrom(starting_balance, monthly_extra, num_months, 1, <<>>)

\* ---------------------------------------------------------------- state
VARIABLES
    pc,        \* "start", "prompt" (interactive_mode asks whether to
               \* project), "loop" (inside project_months), "done" (the
               \* function returned), "exit", "IndexError"
    caller,    \* "none", "api" (function called directly), "main",
               \* "interactive"
    fn,        \* "none", "calculate_month", "project_months"
    args,      \* [balance, extra, months] of the call
    balance,   \* project_months: local balance
    month,     \* project_months: loop variable
    results,   \* project_months: local results
    result,    \* <<r>> once calculate_month was called on its own
    ncalc      \* calculate_month calls made by the function in fn

vars == <<pc, caller, fn, args, balance, month, results, result, ncalc>>

Init ==
    /\ pc = "start"
    /\ caller = "none"
    /\ fn = "none"
    /\ args = [balance |-> 0, extra |-> 0, months |-> 0]
    /\ balance = 0
    /\ month = 0
    /\ results = <<>>
    /\ result = <<>>
    /\ ncalc = 0

\* calculate_month(b, e) on its own
EnterCalculateMonth(who, b, e, m) ==
    /\ caller' = who
    /\ fn' = "calculate_month"
    /\ args' = [balance |-> b, extra |-> e, months |-> m]
    /\ \E r \in calculate_month(b, e) : result' = <<r>>
    /\ ncalc' = ncalc + 1
    /\ pc' = "done"
    /\ UNCHANGED <<balance, month, results>>

\* project_months(b, e, m) up to the loop
EnterProjectMonths(who, b, e, m) ==
    /\ caller' = who
    /\ fn' = "project_months"
    /\ args' = [balance |-> b, extra |-> e, months |-> m]
    /\ results' = <<>>
    /\ balance' = b
    /\ month' = 1
    /\ pc' = "loop"
    /\ ncalc' = 0
    /\ UNCHANGED result

CalculateMonthCall ==
    /\ pc = "start"
    /\ \E b \in Balances, e \in Extras : EnterCalculateMonth("api", b, e, 1)

ProjectMonthsCall ==
    /\ pc = "start"
    /\ \E b \in Balances, e \in Extras, m \in Months :
          EnterProjectMonths("api", b, e, m)

\* if args.months > 0: a dispatch that sends every positive count one way
SingleMonth_positive(months) == months > 0

\* if args.months == 1
SingleMonth(months) == months = 1

\* main: args.months == 1 calls calculate_month, anything else project_months
Main ==
    /\ pc = "start"
    /\ \E b \in Balances, e \in Extras, m \in Months :
          IF SingleMonth(m) THEN EnterCalculateMonth("main", b, e, m)
                   ELSE EnterProjectMonths("main", b, e, m)

\* one pass of the loop body of project_months
ProjectMonthsIter ==
    /\ pc = "loop"
    /\ InRange(month, args.months)
    /\ LET extra == ClampExtra(args.extra, balance)
       IN  \E r \in calculate_month(balance, extra) :
              /\ results' = Append(results, WithMonth(r, month))
              /\ balance' = NextBalance(r)
              /\ IF PaidOff(NextBalance(r))
                    THEN pc' = "done" /\ month' = month
                    ELSE pc' = "loop" /\ month' = month + 1
    /\ ncalc' = ncalc + 1
    /\ UNCHANGED <<caller, fn, args, result>>

\* the range is exhausted: return results
ProjectMonthsReturn ==
    /\ pc = "loop"
    /\ ~InRange(month, args.months)
    /\ pc' = "done"
    /\ UNCHANGED <<caller, fn, args, balance, month, results, result, ncalc>>

\* interactive_mode: balance and extra are read, calculate_month is called
\* and printed, then the user is asked whether to project
InteractiveMode ==
    /\ pc = "start"
    /\ \E b \in Balances, e \in Extras :
          /\ args' = [balance |-> b, extra |-> e, months |-> 1]
          /\ \E r \in calculate_month(b, e) : result' = <<r>>
    /\ caller' = "interactive"
    /\ fn' = "calculate_month"
    /\ ncalc' = ncalc + 1
    /\ pc' = "prompt"
    /\ UNCHANGED <<balance, month, results>>

\* the answer is 'y': months and the monthly extra are read and
\* project_months(balance, monthly_extra, months) is called
InteractiveProject ==
    /\ pc = "prompt"
    /\ \E e \in Extras, m \in Months :
          EnterProjectMonths("interactive", args.balance, e, m)

\* any other answer: interactive_mode returns
InteractiveDecline ==
    /\ pc = "prompt"
    /\ pc' = "done"
    /\ UNCHANGED <<caller, fn, args, balance, month, results, result, ncalc>>

\* results[-1] is defined
HasLast(rs) == Len(rs) >= 1

\* print_projection(results) as main and interactive_mode call it: the
\* rows and totals are printed, then results[-1]['new_balance'] is read
PrintProjection ==
    /\ pc = "done"
    /\ fn = "project_months"
    /\ caller \in {"main", "interactive"}
    /\ pc' = IF HasLast(results) THEN "exit" ELSE "IndexError"
    /\ UNCHANGED <<caller, fn, args, balance, month, results, result, ncalc>>

Next ==
    \/ CalculateMonthCall
    \/ ProjectMonthsCall
    \/ Main
    \/ InteractiveMode
    \/ InteractiveProject
    \/ InteractiveDecline
    \/ ProjectMonthsIter
    \/ ProjectMonthsReturn
    \/ PrintProjection

Spec == Init /\ [][Next]_vars

\* ================================================================ claims
Returned == pc = "done" /\ fn = "project_months"

Single == pc = "done" /\ fn = "calculate_month"

Last(s) == s[Len(s)]

IsCents(x) == x % 10 = 0

\* C1: a projection for num_months >= 1 has min(num_months, k) entries, k
\* the first month whose new_balance <= 0: at least one and at most
\* num_months entries, an entry with new_balance <= 0 is the last one, and
\* a projection shorter than num_months ends in new_balance <= 0.
C1_Termination ==
    (Returned /\ args.months >= 1) =>
        /\ Len(results) >= 1
        /\ Len(results) <= args.months
        /\ \A i \in 1 .. Len(results) :
               results[i].new_balance <= 0 => i = Len(results)
        /\ Len(results) < args.months => Last(results).new_balance <= 0

\* payoff in the middle of a projection, landing exactly on or below zero
C1_Witness ==
    /\ Returned
    /\ Len(results) >= 2
    /\ Len(results) < args.months
    /\ Last(results).new_balance <= 0

\* C2: the first entry starts from the caller's starting balance and every
\* later entry starts from the rounded new_balance of the entry before it.
C2_Chaining ==
    Returned =>
        /\ Len(results) >= 1 => results[1].starting_balance = args.balance
        /\ \A i \in 1 .. Len(results) - 1 :
               results[i + 1].starting_balance = results[i].new_balance

\* three chained months with an extra payment in each
C2_Witness ==
    /\ Returned
    /\ Len(results) >= 3
    /\ \A i \in 1 .. Len(results) : results[i].extra_payment > 0

\* C3 as stated: in every month of every projection, for every
\* monthly_extra, 0 <= extra_payment <= monthly_extra.
C3_Original ==
    Returned =>
        \A i \in 1 .. Len(results) :
            /\ results[i].extra_payment <= args.extra
            /\ results[i].extra_payment >= 0

\* C3 amended: extra_payment >= 0 in every month; extra_payment <=
\* monthly_extra when monthly_extra >= 0; a negative monthly_extra is
\* floored, so extra_payment is 0.
C3_Clamp ==
    Returned =>
        \A i \in 1 .. Len(results) :
            /\ results[i].extra_payment >= 0
            /\ args.extra >= 0 => results[i].extra_payment <= args.extra
            /\ args.extra < 0 => results[i].extra_payment = 0

\* a month whose extra payment was cut below the requested one, and a
\* month at a balance under the tenth of the payment
C3_Witness ==
    /\ Returned
    /\ args.extra > 0
    /\ \E i \in 1 .. Len(results) :
          /\ results[i].extra_payment < args.extra
          /\ results[i].starting_balance < TenthPayment
          /\ results[i].extra_payment = 0

\* a projection with a negative monthly_extra
C3_NegativeWitness ==
    /\ Returned
    /\ args.extra < 0
    /\ Len(results) >= 1

\* C4 as stated: in every produced month result the stored principal is
\* MONTHLY_PAYMENT less the stored interest, rounded to 2 decimal places,
\* also where the exact interest is a half cent.
C4_Original ==
    /\ Single =>
          result[1].principal
              \in RoundSet(Whole(MONTHLY_PAYMENT - result[1].interest))
    /\ Returned =>
          \A i \in 1 .. Len(results) :
              results[i].principal
                  \in RoundSet(Whole(MONTHLY_PAYMENT - results[i].interest))

\* C5 as stated: in every produced month result the stored new_balance is
\* starting_balance less extra_payment less the stored principal, rounded
\* to 2 decimal places.
C5_Original ==
    /\ Single =>
          result[1].new_balance
              \in RoundSet(Whole(result[1].starting_balance
                                 - result[1].extra_payment
                                 - result[1].principal))
    /\ Returned =>
          \A i \in 1 .. Len(results) :
              results[i].new_balance
                  \in RoundSet(Whole(results[i].starting_balance
                                     - results[i].extra_payment
                                     - results[i].principal))

\* C6: project_months with num_months <= 0 returns an empty projection
\* and calls calculate_month not once.
C6_EmptyProjection ==
    (Returned /\ args.months <= 0) => (results = <<>> /\ ncalc = 0)

\* a returned projection for a zero or negative month count, from a
\* positive balance with a positive extra
C6_Witness ==
    /\ Returned
    /\ args.months <= 0
    /\ args.balance > 0
    /\ args.extra > 0

\* calculate_month(95347.03, 6042)
Scenario1 ==
    /\ Single
    /\ args.balance = Mills(95347, 3)
    /\ args.extra = Mills(6042, 0)

\* C7 as stated: calculate_month(95347.03, 6042) returns
\* balance_for_interest 89305.03, interest 483.14, principal 811.25 and
\* new_balance 88493.78.
C7_Original ==
    Scenario1 =>
        /\ result[1].balance_for_interest = Mills(89305, 3)
        /\ result[1].interest = Mills(483, 14)
        /\ result[1].principal = Mills(811, 25)
        /\ result[1].new_balance = Mills(88493, 78)

\* C7 amended: calculate_month(95347.03, 6042) returns
\* balance_for_interest 89305.03, interest 482.99, principal 811.40 and
\* new_balance 88493.63.
C7_Scenario1 ==
    Scenario1 =>
        /\ result[1].balance_for_interest = Mills(89305, 3)
        /\ result[1].interest = Mills(482, 99)
        /\ result[1].principal = Mills(811, 40)
        /\ result[1].new_balance = Mills(88493, 63)

\* the scenario was computed
C7_Witness == Scenario1 /\ Len(result) = 1 /\ ncalc = 1

\* the first entries a projection from balance b with monthly extra e can
\* have, the month tag left off
FirstEntries(b, e) == calculate_month(b, ClampExtra(e, b))

\* C8: main with months = 1 calls calculate_month with the extra exactly as
\* supplied, unclamped; with months # 1 it goes through project_months and
\* every month's extra is clamped against that month's balance; so the
\* one-month result is a possible first entry of the projection from the
\* same balance and extra exactly when the clamp leaves the extra alone.
C8_SingleMonthAsymmetry ==
    (pc = "done" /\ caller = "main") =>
        /\ (args.months = 1) <=> (fn = "calculate_month")
        /\ (args.months # 1) <=> (fn = "project_months")
        /\ fn = "calculate_month" =>
              /\ Len(result) = 1
              /\ results = <<>>
              /\ result[1].extra_payment = args.extra
              /\ result[1].balance_for_interest = args.balance - args.extra
              /\ (result[1] \in FirstEntries(args.balance, args.extra))
                    <=> (ClampExtra(args.extra, args.balance) = args.extra)
        /\ fn = "project_months" =>
              /\ result = <<>>
              /\ \A i \in 1 .. Len(results) :
                    results[i].extra_payment
                        = ClampExtra(args.extra, results[i].starting_balance)

\* a one-month run of main whose extra exceeds balance - 0.1 x payment
C8_Witness ==
    /\ pc = "done"
    /\ caller = "main"
    /\ fn = "calculate_month"
    /\ args.extra > 0
    /\ args.extra > args.balance - TenthPayment
    /\ result[1].extra_payment = args.extra

\* a one-month run of main with a negative extra
C8_NegativeWitness ==
    /\ pc = "done"
    /\ caller = "main"
    /\ fn = "calculate_month"
    /\ result[1].extra_payment < 0

CurrencyFieldsInCents(r) ==
    /\ IsCents(r.starting_balance)
    /\ IsCents(r.extra_payment)
    /\ IsCents(r.balance_for_interest)
    /\ IsCents(r.interest)
    /\ IsCents(r.principal)
    /\ IsCents(r.total_paid)
    /\ IsCents(r.new_balance)

\* C9 as stated: for whole-cent inputs every currency field of every month
\* result (starting_balance, extra_payment, balance_for_interest, interest,
\* principal, total_paid, new_balance) is a whole number of cents.
C9_Original ==
    /\ Single => CurrencyFieldsInCents(result[1])
    /\ Returned => \A i \in 1 .. Len(results) : CurrencyFieldsInCents(results[i])

\* C10: in every month of a projection the extra payment applied is
\* max(0, min(monthly_extra, b - 0.1 x MONTHLY_PAYMENT)) for the balance b
\* at the start of that month: the caller's balance in month 1, the
\* previous month's rounded new_balance afterwards.
C10_ClampPerMonth ==
    Returned =>
        \A i \in 1 .. Len(results) :
            LET b == IF i = 1 THEN args.balance
                              ELSE results[i - 1].new_balance
            IN  results[i].extra_payment
                    = Max(0, Min(args.extra, b - TenthPayment))

\* the applied extra changes inside one projection, and the clamp against
\* the original balance would not have changed it
C10_Witness ==
    /\ Returned
    /\ Len(results) >= 2
    /\ results[1].extra_payment = args.extra
    /\ Last(results).extra_payment > 0
    /\ Last(results).extra_payment < args.extra
    /\ args.extra < args.balance - TenthPayment

\* C11 as stated: in a projection from a balance >= 0, every month has
\* balance_for_interest >= 0 and interest >= 0, and a month whose starting
\* balance is at least 0.1 x MONTHLY_PAYMENT has a balance_for_interest of
\* at least 0.1 x MONTHLY_PAYMENT.
C11_Original ==
    (Returned /\ args.balance >= 0) =>
        \A i \in 1 .. Len(results) :
            /\ results[i].balance_for_interest >= 0
            /\ results[i].interest >= 0
            /\ results[i].starting_balance >= TenthPayment =>
                  \A side \in BfiVsTenth(results[i].starting_balance,
                                          results[i].extra_payment) :
                      side >= 0

\* the part of C11 that the doubles do not disturb: no negative
\* balance_for_interest or interest, and in exact arithmetic the floor
C11_Exact ==
    (Returned /\ args.balance >= 0) =>
        \A i \in 1 .. Len(results) :
            /\ results[i].balance_for_interest >= 0
            /\ results[i].interest >= 0
            /\ results[i].starting_balance >= TenthPayment =>
                  results[i].balance_for_interest >= TenthPayment

\* the unrounded interest on r's balance_for_interest exceeds the payment
InterestExceeds(r) ==
    LET interest == Interest(r.balance_for_interest)
    IN  \/ interest.w > MONTHLY_PAYMENT
        \/ interest.w = MONTHLY_PAYMENT /\ interest.f > 0

\* the interest stored in r, rounded to cents, exceeds the payment
StoredInterestExceeds(r) == r.interest > MONTHLY_PAYMENT

\* C12 as stated: whenever the interest on balance_for_interest exceeds
\* MONTHLY_PAYMENT, calculate_month returns a negative principal and a
\* new_balance above balance_for_interest, and a projection in that regime
\* has a balance that grows from month to month and runs for the full
\* num_months.
C12_Original ==
    /\ (Single /\ InterestExceeds(result[1])) =>
          /\ result[1].principal < 0
          /\ result[1].new_balance > result[1].balance_for_interest
    /\ (Returned /\ Len(results) >= 1
           /\ \A i \in 1 .. Len(results) : InterestExceeds(results[i])) =>
          /\ Len(results) = args.months
          /\ \A i \in 1 .. Len(results) :
                /\ results[i].principal < 0
                /\ results[i].new_balance > results[i].balance_for_interest
                /\ results[i].new_balance > results[i].starting_balance

\* C12 amended: whenever the stored interest, rounded to cents, exceeds
\* MONTHLY_PAYMENT, calculate_month returns a negative principal and a
\* new_balance above balance_for_interest; a projection whose months are
\* all in that regime runs for the full num_months, and its balance grows
\* in every month without an extra payment.
C12_Pathological ==
    /\ (Single /\ StoredInterestExceeds(result[1])) =>
          /\ result[1].principal < 0
          /\ result[1].new_balance > result[1].balance_for_interest
    /\ (Returned /\ Len(results) >= 1
           /\ \A i \in 1 .. Len(results) :
                  StoredInterestExceeds(results[i])) =>
          /\ Len(results) = args.months
          /\ \A i \in 1 .. Len(results) :
                /\ results[i].principal < 0
                /\ results[i].new_balance > results[i].balance_for_interest
                /\ results[i].extra_payment = 0 =>
                      results[i].new_balance > results[i].starting_balance

\* a full projection of three or more months, each with interest above
\* the payment and no extra payment, the balance growing throughout
C12_Witness ==
    /\ Returned
    /\ Len(results) >= 3
    /\ Len(results) = args.months
    /\ \A i \in 1 .. Len(results) :
          /\ StoredInterestExceeds(results[i])
          /\ results[i].extra_payment = 0
          /\ results[i].new_balance > results[i].starting_balance

\* the interest exceeds the payment by less than half a cent: the principal
\* is stored as zero and the balance stays where it was
C12_BoundaryWitness ==
    /\ Returned
    /\ Len(results) >= 2
    /\ \A i \in 1 .. Len(results) :
          /\ InterestExceeds(results[i])
          /\ results[i].principal = 0
          /\ results[i].new_balance = results[i].starting_balance

\* project_months has returned to main or interactive_mode, which passes
\* the list to print_projection
HandedToPrint ==
    /\ pc = "done"
    /\ fn = "project_months"
    /\ caller \in {"main", "interactive"}

\* C13 as stated: every projection that main or interactive_mode hands to
\* print_projection is non-empty, for every integer months, so the read of
\* results[-1] is always defined.
C13_Original ==
    /\ HandedToPrint => Len(results) >= 1
    /\ pc # "IndexError"

\* b x MONTHLY_RATE < MONTHLY_PAYMENT, exactly
PaymentExceedsInterest(b) == MulRate(b).w < MONTHLY_PAYMENT

\* b x MONTHLY_RATE < MONTHLY_PAYMENT - 0.005, exactly: the principal
\* portion on b rounds to a cent or more
PaymentExceedsInterestByHalfCent(b) == MulRate(b).w < MONTHLY_PAYMENT - 5

\* C14 as stated: from a balance b > 0 with b x MONTHLY_RATE <
\* MONTHLY_PAYMENT and a monthly_extra >= 0, every month's rounded
\* new_balance is strictly below its starting_balance, so the balance
\* never stalls and a long enough projection ends in a payoff month.
C14_Original ==
    (Returned /\ args.balance > 0 /\ args.extra >= 0
       /\ PaymentExceedsInterest(args.balance)) =>
        \A i \in 1 .. Len(results) :
            results[i].new_balance < results[i].starting_balance

\* C14 amended: from a balance b > 0 with b x MONTHLY_RATE <
\* MONTHLY_PAYMENT - 0.005 and a monthly_extra >= 0, every month's rounded
\* new_balance is at least a cent below its starting_balance, so after n
\* months the balance is at least n cents below b, and the projection
\* stops at the first month with new_balance <= 0 or at the horizon.
C14_EventualPayoff ==
    (Returned /\ args.balance > 0 /\ args.extra >= 0
       /\ PaymentExceedsInterestByHalfCent(args.balance)) =>
        /\ \A i \in 1 .. Len(results) :
              /\ results[i].new_balance <= results[i].starting_balance - 10
              /\ results[i].new_balance <= args.balance - 10 * i
              /\ results[i].new_balance <= 0 => i = Len(results)
        /\ Len(results) < args.months => Last(results).new_balance <= 0

\* a projection without extra payments that reaches payoff in its third
\* month or later, before the horizon
C14_Witness ==
    /\ Returned
    /\ args.balance > 0
    /\ args.extra = 0
    /\ PaymentExceedsInterestByHalfCent(args.balance)
    /\ Len(results) >= 3
    /\ Len(results) < args.months
    /\ Last(results).new_balance <= 0

\* the payment exceeds the interest by less than half a cent and the
\* balance stalls for the whole horizon
C14_StallWitness ==
    /\ Returned
    /\ args.balance > 0
    /\ PaymentExceedsInterest(args.balance)
    /\ Len(results) >= 3
    /\ Len(results) = args.months
    /\ \A i \in 1 .. Len(results) :
          results[i].new_balance = args.balance

\* the loop of project_months, run pass by pass, returns what project_months
\* returns as a function
ProjectMonthsAgree ==
    Returned =>
        results \in project_months(args.balance, args.extra, args.months)

\* projection `more` pays at least as much as projection `less`: at every
\* month both have, its new_balance is no higher, and it is no longer
NeverBehind(more, less) ==
    /\ Len(more) <= Len(less)
    /\ \A i \in 1 .. Min(Len(more), Len(less)) :
          more[i].new_balance <= less[i].new_balance

\* C15: for two projections from the same balance >= 0 and the same
\* num_months with monthly extras e1 <= e2, at every month present in both
\* the new_balance under e2 is at most the new_balance under e1, and the
\* projection under e2 is not the longer one.
C15_PayingMoreNeverHurts ==
    (Returned /\ args.balance >= 0) =>
        \A e1 \in Extras :
            e1 <= args.extra =>
                \A less \in project_months(args.balance, e1, args.months) :
                    NeverBehind(results, less)

\* a projection that a smaller extra makes strictly longer and, in a month
\* both have, strictly higher
C15_Witness ==
    /\ Returned
    /\ args.balance >= 0
    /\ Len(results) >= 2
    /\ \E e1 \in Extras :
          /\ e1 > 0
          /\ e1 < args.extra
          /\ \E less \in project_months(args.balance, e1, args.months) :
                /\ Len(less) > Len(results)
                /\ results[1].new_balance < less[1].new_balance

====
